---- MODULE Spec2Model ----
(***************************************************************************)
(* Model of app.py: the YouTube subtitle pipeline                          *)
(*   extract_video_id -> get_transcript -> correct_text_gpt ->             *)
(*   translate_text, driven by main() on a press of the Process button.    *)
(* Strings are sequences of one-character strings.                         *)
(***************************************************************************)
EXTENDS Integers, Sequences, FiniteSets, TLC

VARIABLES
    url,              \* value of the "Enter YouTube Video URL" text input
    pc,               \* position of the script run of main()
    target_language,  \* value of the "Select target language" selectbox
    video_id,         \* main(): video_id
    transcript,       \* entries returned by YouTubeTranscriptApi.get_transcript
    original_text,    \* main(): original_text
    corrected_text,   \* main(): corrected_text
    target_lang_code, \* main(): target_lang_code
    translated_text,  \* main(): translated_text
    env_key,          \* os.getenv("OPENAI_API_KEY") as read by the run
    secret_key,       \* "OPENAI_API_KEY" in st.secrets as read by the run
    fetch_arg,        \* argument of the call to the caption dependency
    translate_arg,    \* arguments of the call to the translation dependency
    raised,           \* the dependencies that raised when the run called them
    events            \* what the run did, in order: calls, errors, panels

vars == <<url, pc, target_language, video_id, transcript, original_text,
          corrected_text, target_lang_code, translated_text, env_key,
          secret_key, fetch_arg, translate_arg, raised, events>>

-----------------------------------------------------------------------------
(* Bounds of the model *)

MaxChunks == 4

MaxEntries == 2

-----------------------------------------------------------------------------
(* Values *)

\* Python's None
None == <<"<None>">>

\* a local of main() that the run has not assigned yet
Unset == <<"<unset>">>

\* the character class [0-9A-Za-z_-]
IdChars ==
    {"0","1","2","3","4","5","6","7","8","9",
     "A","B","C","D","E","F","G","H","I","J","K","L","M",
     "N","O","P","Q","R","S","T","U","V","W","X","Y","Z",
     "a","b","c","d","e","f","g","h","i","j","k","l","m",
     "n","o","p","q","r","s","t","u","v","w","x","y","z",
     "_","-"}

\* the repetition count {11}
IdLen == 11

\* characters str.strip() removes
Whitespace == {" ", "\n", "\t"}

-----------------------------------------------------------------------------
(* extract_video_id *)

\* the literal lit occurs in s at position i
LitAt(s, i, lit) ==
    /\ i >= 1
    /\ i + Len(lit) - 1 <= Len(s)
    /\ \A k \in 1..Len(lit) : s[i + k - 1] = lit[k]

\* [0-9A-Za-z_-]{n} matches in s at position j
IdRunAt(s, j, n) ==
    /\ j >= 1
    /\ j + n - 1 <= Len(s)
    /\ \A k \in 0..(n - 1) : s[j + k] \in IdChars

\* the two patterns, in order: the alternatives of the leading group, in
\* order, each followed by a capture group of IdLen identifier characters
\* (the trailing .* of the first pattern matches anything, the empty string
\* included, and captures nothing)
patterns ==
    << [alts |-> << <<"v","=">>, <<"/">> >>, n |-> IdLen],
       [alts |-> << <<"y","o","u","t","u",".","b","e","/">> >>, n |-> IdLen] >>

\* the pattern matches with its first character at position i
MatchesAt(pattern, s, i) ==
    \E a \in 1..Len(pattern.alts) :
        /\ LitAt(s, i, pattern.alts[a])
        /\ IdRunAt(s, i + Len(pattern.alts[a]), pattern.n)

\* start of group 1 for the match at i: the first alternative that leads to
\* a match
GroupStart(pattern, s, i) ==
    LET a == CHOOSE x \in 1..Len(pattern.alts) :
                 /\ LitAt(s, i, pattern.alts[x])
                 /\ IdRunAt(s, i + Len(pattern.alts[x]), pattern.n)
                 /\ \A y \in 1..(x - 1) :
                        ~ (/\ LitAt(s, i, pattern.alts[y])
                           /\ IdRunAt(s, i + Len(pattern.alts[y]), pattern.n))
    IN  i + Len(pattern.alts[a])

\* re.search(pattern, s): the leftmost match; 0 when there is none,
\* else the start of group 1
ReSearch(pattern, s) ==
    IF \E i \in 1..Len(s) : MatchesAt(pattern, s, i)
    THEN LET i == CHOOSE x \in 1..Len(s) :
                      /\ MatchesAt(pattern, s, x)
                      /\ \A y \in 1..(x - 1) : ~ MatchesAt(pattern, s, y)
         IN  GroupStart(pattern, s, i)
    ELSE 0

\* for pattern in patterns: the index of the first pattern that matches,
\* 0 when none does
FirstPattern(s) ==
    IF \E p \in 1..Len(patterns) : ReSearch(patterns[p], s) # 0
    THEN CHOOSE p \in 1..Len(patterns) :
             /\ ReSearch(patterns[p], s) # 0
             /\ \A q \in 1..(p - 1) : ReSearch(patterns[q], s) = 0
    ELSE 0

\* position in url of match.group(1) of the pattern that wins, 0 when none
ExtractPos(s) ==
    IF FirstPattern(s) = 0 THEN 0 ELSE ReSearch(patterns[FirstPattern(s)], s)

ExtractVideoId(s) ==
    IF ExtractPos(s) = 0
    THEN None
    ELSE SubSeq(s, ExtractPos(s), ExtractPos(s) + IdLen - 1)

-----------------------------------------------------------------------------
(* get_transcript *)

\* " ".join(texts)
RECURSIVE StrJoin(_, _)
StrJoin(sep, texts) ==
    IF Len(texts) = 0 THEN <<>>
    ELSE IF Len(texts) = 1 THEN texts[1]
    ELSE texts[1] \o sep \o StrJoin(sep, Tail(texts))

\* get_transcript joining with "".join
GetTranscript_NoSeparator(id, answer) ==
    IF answer.raise
    THEN [raised |-> TRUE, call |-> id, ret |-> None]
    ELSE [raised |-> FALSE, call |-> id,
          ret |-> StrJoin(<<>>, [k \in 1..Len(answer.value) |->
                                    answer.value[k].text])]

\* answer is what the caption dependency does with the call: it raises,
\* or it returns answer.value, a sequence of entries
GetTranscript(id, answer) ==
    IF answer.raise
    THEN [raised |-> TRUE, call |-> id, ret |-> None]
    ELSE [raised |-> FALSE, call |-> id,
          ret |-> StrJoin(<<" ">>, [k \in 1..Len(answer.value) |->
                                       answer.value[k].text])]

-----------------------------------------------------------------------------
(* correct_text_gpt *)

\* str.strip()
RECURSIVE LStrip(_)
LStrip(s) ==
    IF Len(s) > 0 /\ s[1] \in Whitespace THEN LStrip(Tail(s)) ELSE s

RECURSIVE RStrip(_)
RStrip(s) ==
    IF Len(s) > 0 /\ s[Len(s)] \in Whitespace
    THEN RStrip(SubSeq(s, 1, Len(s) - 1))
    ELSE s

Strip(s) == LStrip(RStrip(s))

\* Python truthiness of os.getenv(...): None and "" are false
Truthy(v) == v # None /\ v # <<>>

\* correct_text_gpt without the return after the error of the credential
\* check
CorrectTextGpt_NoReturn(text, env, secret, answer) ==
    LET pre == IF ~ Truthy(env) /\ ~ secret
               THEN <<"check:credential", "error:CorrectionDegraded">>
               ELSE <<"check:credential">>
    IN  IF answer.raise
        THEN [raised |-> FALSE, ret |-> text,
              events |-> pre \o <<"call:correct", "error:CorrectionDegraded">>]
        ELSE [raised |-> FALSE, ret |-> Strip(answer.value),
              events |-> pre \o <<"call:correct">>]

\* correct_text_gpt without the try around the call
CorrectTextGpt_NoTry(text, env, secret, answer) ==
    IF ~ Truthy(env) /\ ~ secret
    THEN [raised |-> FALSE, ret |-> text,
          events |-> <<"check:credential", "error:CorrectionDegraded">>]
    ELSE IF answer.raise
    THEN [raised |-> TRUE, ret |-> None,
          events |-> <<"check:credential", "call:correct">>]
    ELSE [raised |-> FALSE, ret |-> Strip(answer.value),
          events |-> <<"check:credential", "call:correct">>]

\* env: os.getenv("OPENAI_API_KEY"); secret: "OPENAI_API_KEY" in st.secrets;
\* answer: what openai.ChatCompletion.create does if called: it raises, or
\* answer.value is the content of the first choice of the response
CorrectTextGpt(text, env, secret, answer) ==
    IF ~ Truthy(env) /\ ~ secret
    THEN [raised |-> FALSE, ret |-> text,
          events |-> <<"check:credential", "error:CorrectionDegraded">>]
    ELSE IF answer.raise
    THEN [raised |-> FALSE, ret |-> text,
          events |-> <<"check:credential", "call:correct",
                       "error:CorrectionDegraded">>]
    ELSE [raised |-> FALSE, ret |-> Strip(answer.value),
          events |-> <<"check:credential", "call:correct">>]

-----------------------------------------------------------------------------
(* translate_text *)

\* translate_text whose except clause reports the error and returns nothing
TranslateText_ReturnsNone(text, code, answer) ==
    IF answer.raise
    THEN [raised |-> FALSE, ret |-> None,
          call |-> [text |-> text, code |-> code],
          events |-> <<"call:translate", "error:TranslationDegraded">>]
    ELSE [raised |-> FALSE, ret |-> answer.value,
          call |-> [text |-> text, code |-> code],
          events |-> <<"call:translate">>]

\* answer: what client.translate does: it raises (the import and the
\* construction of the client included), or answer.value is
\* result["translatedText"]
TranslateText(text, code, answer) ==
    IF answer.raise
    THEN [raised |-> FALSE, ret |-> text,
          call |-> [text |-> text, code |-> code],
          events |-> <<"call:translate", "error:TranslationDegraded">>]
    ELSE [raised |-> FALSE, ret |-> answer.value,
          call |-> [text |-> text, code |-> code],
          events |-> <<"call:translate">>]

-----------------------------------------------------------------------------
(* main: the language selection *)

\* the options of the selectbox
LanguageOptions ==
    {"English", "Spanish", "French", "German", "Italian", "Portuguese",
     "Turkish"}

\* lang_map with a mistyped code
lang_map_Typo ==
    [n \in LanguageOptions |->
        CASE n = "English" -> "en"
          [] n = "Spanish" -> "es"
          [] n = "French" -> "fr"
          [] n = "German" -> "de"
          [] n = "Italian" -> "it"
          [] n = "Portuguese" -> "pt"
          [] n = "Turkish" -> "tk"]

lang_map ==
    [n \in LanguageOptions |->
        CASE n = "English" -> "en"
          [] n = "Spanish" -> "es"
          [] n = "French" -> "fr"
          [] n = "German" -> "de"
          [] n = "Italian" -> "it"
          [] n = "Portuguese" -> "pt"
          [] n = "Turkish" -> "tr"]

\* lang_map.get(name, "en")
LangMapGet(name) ==
    IF name \in DOMAIN lang_map THEN lang_map[name] ELSE "en"

-----------------------------------------------------------------------------
(* The inputs of the model *)

\* pieces of text the user types into the URL field
UrlHost == <<"h","t","t","p","s",":","/","/","w","w","w",".","y","o","u","t",
             "u","b","e",".","c","o","m","/">>

UrlWatch == <<"w","a","t","c","h","?","v","=">>

UrlShort == <<"h","t","t","p","s",":","/","/","y","o","u","t","u",".","b",
              "e","/">>

UrlId == <<"d","Q","w","4","w","9","W","g","X","c","Q">>

UrlChar == <<"Z">>

UrlPath == <<"C","h","a","n","n","e","l","N","a","m","e","/">>

Chunks == {UrlHost, UrlWatch, UrlShort, UrlId, UrlChar, UrlPath}

\* whole URLs the user pastes into the URL field
SampleUrls ==
    { UrlHost \o UrlWatch \o UrlId,
      UrlShort \o UrlId,
      UrlShort \o UrlId \o UrlChar,
      UrlHost \o UrlWatch }

\* how many chunks the text of the URL field is made of
RECURSIVE ChunkCount(_)
ChunkCount(s) ==
    IF s = <<>> THEN 0
    ELSE LET fits == {c \in Chunks : Len(c) <= Len(s) /\ SubSeq(s, 1, Len(c)) = c}
             c == CHOOSE x \in fits : TRUE
         IN  1 + ChunkCount(SubSeq(s, Len(c) + 1, Len(s)))

\* texts of caption entries
EntryTexts ==
    { <<"h","e","l","l","o">>, <<"w","o","r","l","d">> }

\* caption tracks the caption dependency may return
Tracks ==
    UNION { [1..n -> [text : EntryTexts]] : n \in 0..MaxEntries }

\* os.getenv("OPENAI_API_KEY"): unset, set to the empty string, set to a key
EnvValues == { None, <<>>, <<"s","k","-","1">> }

\* what the dependencies answer
Raise == [raise |-> TRUE, value |-> None]

Return(v) == [raise |-> FALSE, value |-> v]

FetchAnswers == {[raise |-> TRUE, value |-> <<>>]} \cup {Return(t) : t \in Tracks}

CorrectAnswers == { Raise, Return(<<" ","O","k","."," ","\n">>) }

TranslateAnswers(text, code) == { Raise, Return(<<"[", code, "]">> \o text) }

-----------------------------------------------------------------------------
(* The state machine *)

NoCall == [text |-> Unset, code |-> ""]

\* the function called the dependency
Called(evs, call) == \E i \in 1..Len(evs) : evs[i] = call

\* a script run starts with the locals of main() unassigned and an empty page
FreshRun ==
    /\ video_id' = Unset
    /\ transcript' = <<>>
    /\ original_text' = Unset
    /\ corrected_text' = Unset
    /\ target_lang_code' = ""
    /\ translated_text' = Unset
    /\ env_key' = None
    /\ secret_key' = FALSE
    /\ fetch_arg' = Unset
    /\ translate_arg' = NoCall
    /\ raised' = {}
    /\ events' = <<>>

Init ==
    /\ url = <<>>
    /\ pc = "idle"
    /\ target_language = "English"
    /\ video_id = Unset
    /\ transcript = <<>>
    /\ original_text = Unset
    /\ corrected_text = Unset
    /\ target_lang_code = ""
    /\ translated_text = Unset
    /\ env_key = None
    /\ secret_key = FALSE
    /\ fetch_arg = Unset
    /\ translate_arg = NoCall
    /\ raised = {}
    /\ events = <<>>

\* the user types into the URL field; the script reruns with the button
\* not pressed
TypeUrl ==
    /\ pc \in {"idle", "done", "crashed"}
    /\ ChunkCount(url) < MaxChunks
    /\ \E c \in Chunks : url' = url \o c
    /\ pc' = "idle"
    /\ FreshRun
    /\ UNCHANGED target_language

\* the user pastes a whole URL into the URL field
PasteUrl ==
    /\ pc \in {"idle", "done", "crashed"}
    /\ \E u \in SampleUrls : u # url /\ url' = u
    /\ pc' = "idle"
    /\ FreshRun
    /\ UNCHANGED target_language

\* the user empties the URL field
ClearUrl ==
    /\ pc \in {"idle", "done", "crashed"}
    /\ url # <<>>
    /\ url' = <<>>
    /\ pc' = "idle"
    /\ FreshRun
    /\ UNCHANGED target_language

\* the user picks a language in the selectbox
SelectLanguage ==
    /\ pc \in {"idle", "done", "crashed"}
    /\ \E n \in LanguageOptions : n # target_language /\ target_language' = n
    /\ pc' = "idle"
    /\ FreshRun
    /\ UNCHANGED url

\* Process without the return after the error of an invalid URL
Process_NoReturn ==
    /\ pc \in {"idle", "done", "crashed"}
    /\ IF ~ Truthy(url)
       THEN /\ video_id' = Unset
            /\ events' = <<"error:EmptyURL">>
            /\ pc' = "done"
       ELSE /\ video_id' = ExtractVideoId(url)
            /\ IF ~ Truthy(video_id')
               THEN events' = <<"error:InvalidURL">>
               ELSE events' = <<>>
            /\ pc' = "fetch"
    /\ transcript' = <<>>
    /\ original_text' = Unset
    /\ corrected_text' = Unset
    /\ target_lang_code' = ""
    /\ translated_text' = Unset
    /\ env_key' = None
    /\ secret_key' = FALSE
    /\ fetch_arg' = Unset
    /\ translate_arg' = NoCall
    /\ raised' = {}
    /\ UNCHANGED <<url, target_language>>

\* the Process button is pressed: the script runs up to the call of
\* get_transcript (the check of the URL, extract_video_id, the check of its
\* result)
Process ==
    /\ pc \in {"idle", "done", "crashed"}
    /\ IF ~ Truthy(url)
       THEN /\ video_id' = Unset
            /\ events' = <<"error:EmptyURL">>
            /\ pc' = "done"
       ELSE /\ video_id' = ExtractVideoId(url)
            /\ IF ~ Truthy(video_id')
               THEN /\ events' = <<"error:InvalidURL">>
                    /\ pc' = "done"
               ELSE /\ events' = <<>>
                    /\ pc' = "fetch"
    /\ transcript' = <<>>
    /\ original_text' = Unset
    /\ corrected_text' = Unset
    /\ target_lang_code' = ""
    /\ translated_text' = Unset
    /\ env_key' = None
    /\ secret_key' = FALSE
    /\ fetch_arg' = Unset
    /\ translate_arg' = NoCall
    /\ raised' = {}
    /\ UNCHANGED <<url, target_language>>

\* the call of get_transcript, its except clause, the Original panel
Fetch ==
    /\ pc = "fetch"
    /\ \E answer \in FetchAnswers :
         LET r == GetTranscript(video_id, answer) IN
         /\ fetch_arg' = r.call
         /\ raised' = IF answer.raise THEN raised \cup {"get_transcript"}
                                     ELSE raised
         /\ IF r.raised
            THEN /\ events' = events \o <<"call:get_transcript", "error:FetchError">>
                 /\ transcript' = <<>>
                 /\ original_text' = Unset
                 /\ pc' = "done"
            ELSE /\ events' = events \o <<"call:get_transcript", "panel:Original">>
                 /\ transcript' = answer.value
                 /\ original_text' = r.ret
                 /\ pc' = "correct"
    /\ UNCHANGED <<url, target_language, video_id, corrected_text,
                   target_lang_code, translated_text, env_key, secret_key,
                   translate_arg>>

\* the call of correct_text_gpt, the Corrected panel; an exception that
\* leaves correct_text_gpt ends the script run
Correct ==
    /\ pc = "correct"
    /\ \E env \in EnvValues, secret \in BOOLEAN, answer \in CorrectAnswers :
         LET r == CorrectTextGpt(original_text, env, secret, answer) IN
         /\ env_key' = env
         /\ secret_key' = secret
         /\ raised' = IF answer.raise /\ Called(r.events, "call:correct")
                      THEN raised \cup {"correct"}
                      ELSE raised
         /\ IF r.raised
            THEN /\ events' = events \o r.events
                 /\ corrected_text' = Unset
                 /\ pc' = "crashed"
            ELSE /\ events' = events \o r.events \o <<"panel:Corrected">>
                 /\ corrected_text' = r.ret
                 /\ pc' = "translate"
    /\ UNCHANGED <<url, target_language, video_id, transcript, original_text,
                   target_lang_code, translated_text, fetch_arg, translate_arg>>

\* Translate with the Translated panel rendered before translate_text runs
Translate_PanelFirst ==
    /\ pc = "translate"
    /\ target_lang_code' = LangMapGet(target_language)
    /\ \E answer \in TranslateAnswers(corrected_text, target_lang_code') :
         LET r == TranslateText(corrected_text, target_lang_code', answer) IN
         /\ translate_arg' = r.call
         /\ raised' = IF answer.raise /\ Called(r.events, "call:translate")
                      THEN raised \cup {"translate"}
                      ELSE raised
         /\ IF r.raised
            THEN /\ events' = events \o r.events
                 /\ translated_text' = Unset
                 /\ pc' = "crashed"
            ELSE /\ events' = events \o <<"panel:Translated">> \o r.events
                 /\ translated_text' = r.ret
                 /\ pc' = "done"
    /\ UNCHANGED <<url, target_language, video_id, transcript, original_text,
                   corrected_text, env_key, secret_key, fetch_arg>>

\* the lookup of the language code, the call of translate_text, the
\* Translated panel; an exception that leaves translate_text ends the run
Translate ==
    /\ pc = "translate"
    /\ target_lang_code' = LangMapGet(target_language)
    /\ \E answer \in TranslateAnswers(corrected_text, target_lang_code') :
         LET r == TranslateText(corrected_text, target_lang_code', answer) IN
         /\ translate_arg' = r.call
         /\ raised' = IF answer.raise /\ Called(r.events, "call:translate")
                      THEN raised \cup {"translate"}
                      ELSE raised
         /\ IF r.raised
            THEN /\ events' = events \o r.events
                 /\ translated_text' = Unset
                 /\ pc' = "crashed"
            ELSE /\ events' = events \o r.events \o <<"panel:Translated">>
                 /\ translated_text' = r.ret
                 /\ pc' = "done"
    /\ UNCHANGED <<url, target_language, video_id, transcript, original_text,
                   corrected_text, env_key, secret_key, fetch_arg>>

\* one step of a script run
RunStep == Fetch \/ Correct \/ Translate

Next ==
    \/ PasteUrl
    \/ ClearUrl
    \/ SelectLanguage
    \/ Process
    \/ Fetch
    \/ Correct
    \/ Translate

\* the pipeline on the sample URLs
Spec == Init /\ [][Next]_vars

\* a script run that has started runs to its end
FairSpec == Spec /\ WF_vars(RunStep)

NextParse ==
    \/ TypeUrl
    \/ ClearUrl
    \/ Process
    \/ Fetch

\* the URL parser and the caption fetcher on every URL the user can type
SpecParse == Init /\ [][NextParse]_vars

-----------------------------------------------------------------------------
(* Reading the record of a run *)

Has(e) == \E i \in 1..Len(events) : events[i] = e

\* position of the first e in events
Idx(e) == CHOOSE i \in 1..Len(events) :
              events[i] = e /\ \A j \in 1..(i - 1) : events[j] # e

Count(e) == Cardinality({i \in 1..Len(events) : events[i] = e})

PanelOrder == <<"panel:Original", "panel:Corrected", "panel:Translated">>

IsPanel(e) == \E k \in 1..Len(PanelOrder) : PanelOrder[k] = e

\* the panels on the page, in the order they were rendered
Panels == SelectSeq(events, IsPanel)

FatalErrors == {"error:EmptyURL", "error:InvalidURL", "error:FetchError"}

-----------------------------------------------------------------------------
(* C1, C2, C10: the URL parser, under SpecParse *)

ShortLit == <<"y","o","u","t","u",".","b","e","/">>

\* the identifiers that follow a 'watch?v=' or a 'youtu.be/' in s
MarkedIds(s) ==
    { SubSeq(s, i + Len(lit), i + Len(lit) + IdLen - 1) :
        <<i, lit>> \in { x \in (1..Len(s)) \X {UrlWatch, ShortLit} :
                           /\ LitAt(s, x[1], x[2])
                           /\ IdRunAt(s, x[1] + Len(x[2]), IdLen) } }

\* C1: a URL that contains 'watch?v=' or 'youtu.be/' followed by 11
\* identifier characters X yields exactly X, whatever precedes or follows
\* (stated for the URLs that hold one such X, where the claim names one
\* result).
C1_MarkedIdReturned ==
    (video_id # Unset /\ Cardinality(MarkedIds(url)) = 1)
        => video_id \in MarkedIds(url)

\* a maximal run of exactly IdLen identifier characters starts at j, right
\* after a 'v=' or a '/'
ExactSegmentAt(s, j) ==
    /\ \/ (j > 1 /\ s[j - 1] = "/")
       \/ (j > 2 /\ s[j - 2] = "v" /\ s[j - 1] = "=")
    /\ IdRunAt(s, j, IdLen)
    /\ (j + IdLen > Len(s) \/ s[j + IdLen] \notin IdChars)

\* C2: a URL with no maximal run of exactly 11 identifier characters after
\* 'v=' or '/' yields None.
C2_NoSegmentNone ==
    (video_id # Unset /\ ~ \E j \in 1..Len(url) : ExactSegmentAt(url, j))
        => video_id = None

\* id is the first IdLen characters of a longer run of identifier
\* characters of s
TruncatedIn(id, s) ==
    \E j \in 1..Len(s) :
        /\ j + IdLen <= Len(s)
        /\ SubSeq(s, j, j + IdLen - 1) = id
        /\ (j = 1 \/ s[j - 1] \notin IdChars)
        /\ s[j + IdLen] \in IdChars

\* C10: get_transcript is only ever called with 11 identifier characters
\* that are not a truncated prefix of a longer identifier run of the URL.
C10_CompleteIdFetched ==
    fetch_arg # Unset =>
        /\ Len(fetch_arg) = IdLen
        /\ \A k \in 1..Len(fetch_arg) : fetch_arg[k] \in IdChars
        /\ ~ TruncatedIn(fetch_arg, url)

-----------------------------------------------------------------------------
(* C3 .. C9: the pipeline, under Spec (C6 under FairSpec) *)

\* the run has gone through correct_text_gpt
CorrectDone == Has("check:credential")

\* the credential is in neither source
NoCredential == env_key = None /\ ~ secret_key

\* C3: with the credential absent from both sources correct_text_gpt
\* returns its text unchanged, reports one error and never calls the
\* correction dependency; the check of the credential precedes any call.
C3_NoCredentialNoCall ==
    /\ (CorrectDone /\ NoCredential) =>
          /\ pc # "crashed"
          /\ corrected_text = original_text
          /\ Count("error:CorrectionDegraded") = 1
          /\ ~ Has("call:correct")
    /\ Has("call:correct") =>
          /\ Has("check:credential")
          /\ Idx("check:credential") < Idx("call:correct")

C3_Witness ==
    /\ CorrectDone
    /\ NoCredential
    /\ pc = "done"

\* C4: when the correction or the translation dependency raises, the stage
\* returns its input unchanged, reports exactly one error and the
\* exception does not leave the stage.
C4_RaiseDegrades ==
    /\ "correct" \in raised =>
          /\ pc # "crashed"
          /\ corrected_text = original_text
          /\ Count("error:CorrectionDegraded") = 1
    /\ "translate" \in raised =>
          /\ pc # "crashed"
          /\ translated_text = corrected_text
          /\ translated_text = translate_arg.text
          /\ Count("error:TranslationDegraded") = 1

C4_Witness ==
    /\ raised = {"correct", "translate"}
    /\ pc = "done"

\* what ends a run early: an empty URL, no identifier in the URL, an error
\* of the caption dependency
EmptyUrlRun == pc # "idle" /\ url = <<>>

InvalidUrlRun == video_id = None

FetchErrorRun == "get_transcript" \in raised

\* C5: a run with an empty URL, with no identifier in the URL or with a
\* failed fetch reports its error and ends there: the fetcher is not called
\* after an empty or invalid URL, the corrector and the translator are not
\* called, no panel is rendered.
C5_FatalEndsRun ==
    /\ EmptyUrlRun => events = <<"error:EmptyURL">>
    /\ InvalidUrlRun => events = <<"error:InvalidURL">>
    /\ FetchErrorRun => events = <<"call:get_transcript", "error:FetchError">>
    /\ (EmptyUrlRun \/ InvalidUrlRun \/ FetchErrorRun) =>
          /\ pc = "done"
          /\ Panels = <<>>
          /\ original_text = Unset
          /\ corrected_text = Unset
          /\ translated_text = Unset
          /\ translate_arg = NoCall
    /\ (EmptyUrlRun \/ InvalidUrlRun) => fetch_arg = Unset

C5_Witness ==
    /\ FetchErrorRun
    /\ pc = "done"

\* the fetch succeeded
FetchOk == original_text # Unset

AllPanels == pc = "done" /\ Panels = PanelOrder

\* C6: a run whose fetch succeeds reaches its end with the three panels
\* rendered, whatever the corrector and the translator do; the translator
\* gets what the corrector returned, the original transcript when the
\* correction degraded.
C6_FetchedRunCompletes ==
    /\ [](FetchOk => pc \in {"correct", "translate", "done"})
    /\ [](Has("call:translate") =>
             /\ translate_arg.text = corrected_text
             /\ (Has("error:CorrectionDegraded") =>
                    translate_arg.text = original_text))
    /\ [](FetchOk => <>AllPanels)

C6_Witness ==
    /\ AllPanels
    /\ Has("error:CorrectionDegraded")
    /\ Has("error:TranslationDegraded")
    /\ translate_arg.text = original_text

ClaimedCode(n) ==
    CASE n = "English" -> "en"
      [] n = "Spanish" -> "es"
      [] n = "French" -> "fr"
      [] n = "German" -> "de"
      [] n = "Italian" -> "it"
      [] n = "Portuguese" -> "pt"
      [] n = "Turkish" -> "tr"
      [] OTHER -> "en"

\* names outside the table; "<None>" stands for an absent selection
OtherNames == {"Klingon", "english", "tr", "", "<None>"}

\* C8: the lookup is total: the seven names map to their codes, any other
\* name to en, and the translator is called with the code of the selected
\* name.
C8_LanguageCode ==
    /\ \A n \in LanguageOptions \cup OtherNames : LangMapGet(n) = ClaimedCode(n)
    /\ \A n \in OtherNames : LangMapGet(n) = "en"
    /\ Has("call:translate") =>
          /\ target_lang_code = ClaimedCode(target_language)
          /\ translate_arg.code = ClaimedCode(target_language)

C8_Witness ==
    /\ Has("call:translate")
    /\ target_language = "Turkish"
    /\ translate_arg.code = "tr"

\* where the text of entry k starts in the joined text, less one
RECURSIVE Offset(_, _)
Offset(entries, k) ==
    IF k = 1 THEN 0
    ELSE Offset(entries, k - 1) + Len(entries[k - 1].text) + 1

\* C9: get_transcript returns the texts of the entries in their order, one
\* space between consecutive entries, nothing at the ends; the empty track
\* gives the empty string; an error of the dependency leaves get_transcript.
C9_TranscriptJoined ==
    /\ FetchOk =>
          LET n == Len(transcript) IN
          /\ Len(original_text) =
                 IF n = 0 THEN 0
                 ELSE Offset(transcript, n) + Len(transcript[n].text)
          /\ \A k \in 1..n :
                 SubSeq(original_text, Offset(transcript, k) + 1,
                        Offset(transcript, k) + Len(transcript[k].text))
                     = transcript[k].text
          /\ \A k \in 2..n : original_text[Offset(transcript, k)] = " "
    /\ FetchErrorRun =>
          /\ original_text = Unset
          /\ Has("error:FetchError")

C9_Witness ==
    /\ FetchOk
    /\ Len(transcript) = 2
    /\ transcript[1].text = <<"h","e","l","l","o">>
    /\ transcript[2].text = <<"w","o","r","l","d">>
    /\ original_text = <<"h","e","l","l","o"," ","w","o","r","l","d">>

====
